---- MODULE Spec2Model ----
(***************************************************************************)
(* geoip2-csv-converter: convert.ConvertFile / convert.Convert.           *)
(*                                                                         *)
(* A text (a CSV field, a network in CIDR notation, a formatted address)  *)
(* is a sequence of one-character strings.  An address is a record        *)
(* [is4, b] with b its 4 or 16 bytes; a prefix is [addr, bits].           *)
(***************************************************************************)
EXTENDS Integers, Naturals, Sequences, FiniteSets, TLC

VARIABLES
    cidr, ipRange, intRange, hexRange,  \* the four flags of Convert
    pc,         \* position of convert(): start, writeHeader, read, line, flush, done, failed
    run,        \* 1: first conversion; 2: conversion of the first run's output
    inRows,     \* records the csv.Reader has returned so far (header first)
    buf,        \* rows held in the csv.Writer's bufio buffer
    out,        \* rows that reached the output io.Writer
    err,        \* error returned by convert(), NoErr while none
    source,     \* run 2: the records decoded from the first run's output
    first,      \* run 2: what the first run read and wrote
    fpc,        \* position of ConvertFile; "none" when Convert is called on streams
    inFile,     \* input file:  [opened, closeTried, closeFailed]
    outFile,    \* output file: [opened, closeTried, closeFailed]
    fileLog,    \* calls made on the two files and Convert, in order; "!" marks a call that failed
    ret,        \* error returned by ConvertFile, NoErr while none
    fnText,     \* line functions applied to one network: its text
    fnOut       \* line functions applied to one network: the results

vars == <<cidr, ipRange, intRange, hexRange, pc, run, inRows, buf, out, err,
          source, first, fpc, inFile, outFile, fileLog, ret, fnText, fnOut>>

flagVars == <<cidr, ipRange, intRange, hexRange>>
convVars == <<pc, run, inRows, buf, out, err, source, first>>
fileVars == <<fpc, inFile, outFile, fileLog, ret>>
fnVars == <<fnText, fnOut>>

-----------------------------------------------------------------------------
(* Characters and small numbers *)

HexDigits == <<"0","1","2","3","4","5","6","7","8","9","a","b","c","d","e","f">>
UpperHexDigits == <<"A","B","C","D","E","F">>

IsDigit(c) == \E i \in 1..10 : HexDigits[i] = c
DigitVal(c) == (CHOOSE i \in 1..10 : HexDigits[i] = c) - 1
IsHexDigit(c) ==
    \/ \E i \in 1..16 : HexDigits[i] = c
    \/ \E i \in 1..6 : UpperHexDigits[i] = c
HexVal(c) ==
    IF \E i \in 1..16 : HexDigits[i] = c
    THEN (CHOOSE i \in 1..16 : HexDigits[i] = c) - 1
    ELSE (CHOOSE i \in 1..6 : UpperHexDigits[i] = c) + 9

Drop(s, n) == SubSeq(s, n + 1, Len(s))
Take(s, n) == SubSeq(s, 1, n)
Last(s, n) == SubSeq(s, Len(s) - n + 1, Len(s))

RECURSIVE Join(_, _)
Join(parts, sep) ==
    IF Len(parts) = 0 THEN <<>>
    ELSE IF Len(parts) = 1 THEN parts[1]
    ELSE parts[1] \o sep \o Join(Tail(parts), sep)

\* strconv.Itoa / the decimal octets of an IPv4 address: no leading zeros
RECURSIVE Itoa(_)
Itoa(n) == IF n < 10 THEN <<HexDigits[n + 1]>>
           ELSE Itoa(n \div 10) \o <<HexDigits[(n % 10) + 1]>>

\* one hextet in lowercase hex without leading zeros
RECURSIVE AppendHex(_)
AppendHex(n) == IF n < 16 THEN <<HexDigits[n + 1]>>
                ELSE AppendHex(n \div 16) \o <<HexDigits[(n % 16) + 1]>>

\* value of a run of decimal digits
RECURSIVE Atoi(_)
Atoi(s) == IF Len(s) = 0 THEN 0
           ELSE Atoi(Take(s, Len(s) - 1)) * 10 + DigitVal(s[Len(s)])

RECURSIVE HexAtoi(_)
HexAtoi(s) == IF Len(s) = 0 THEN 0
              ELSE HexAtoi(Take(s, Len(s) - 1)) * 16 + HexVal(s[Len(s)])

\* index of the last c in s, 0 when there is none
LastIndex(s, c) ==
    IF \E i \in 1..Len(s) : s[i] = c
    THEN CHOOSE i \in 1..Len(s) : s[i] = c /\ \A j \in (i + 1)..Len(s) : s[j] # c
    ELSE 0

\* index of the first c in s, 0 when there is none
Index(s, c) ==
    IF \E i \in 1..Len(s) : s[i] = c
    THEN CHOOSE i \in 1..Len(s) : s[i] = c /\ \A j \in 1..(i - 1) : s[j] # c
    ELSE 0

RECURSIVE Split(_, _)
Split(s, c) ==
    LET i == Index(s, c)
    IN IF i = 0 THEN <<s>> ELSE <<Take(s, i - 1)>> \o Split(Drop(s, i), c)

-----------------------------------------------------------------------------
(* netip.Addr, netip.Prefix *)

Addr4(b) == [is4 |-> TRUE, b |-> b]
Addr6(b) == [is4 |-> FALSE, b |-> b]
NoPrefix == [ok |-> FALSE]

\* netip parseIPv4Fields: four decimal octets, none empty, none above 255,
\* none with a leading zero
OctetOk(f) ==
    /\ Len(f) \in 1..3
    /\ \A i \in 1..Len(f) : IsDigit(f[i])
    /\ (Len(f) > 1 => f[1] # "0")
    /\ Atoi(f) <= 255

\* f: the text split at its dots
IPv4Fields(f) ==
    IF Len(f) = 4 /\ \A i \in 1..4 : OctetOk(f[i])
    THEN [ok |-> TRUE, b |-> [i \in 1..4 |-> Atoi(f[i])]]
    ELSE [ok |-> FALSE]

parseIPv4Fields(s) == IPv4Fields(Split(s, "."))

\* number of leading hex digits of s
RECURSIVE HexRun(_)
HexRun(s) == IF Len(s) > 0 /\ IsHexDigit(s[1]) THEN 1 + HexRun(Tail(s)) ELSE 0

\* what parseIPv6's loop returns when it stops without an error
LoopEnd(rest, bytes, ell) == [ok |-> TRUE, s |-> rest, ip |-> bytes, ellipsis |-> ell]

\* a trailing dotted IPv4 address in an IPv6 text: v4 is what
\* parseIPv4Fields made of it
EmbeddedIPv4(v4, ip, ellipsis) ==
    IF v4.ok THEN LoopEnd(<<>>, ip \o v4.b, ellipsis) ELSE [ok |-> FALSE]

\* The loop of netip parseIPv6.  s is the text left, ip the bytes parsed so
\* far, ellipsis the byte position of "::" (-1 while none was seen).  One
\* round reads a group of off hex digits (value acc) and what follows it.
RECURSIVE parseIPv6Loop(_, _, _)
parseIPv6Group(s, off, ip, ip2, ellipsis) ==
    IF off > 4 \/ off = 0 THEN [ok |-> FALSE]
    ELSE IF off < Len(s) /\ s[off + 1] = "."
    THEN IF (ellipsis < 0 /\ Len(ip) # 12) \/ Len(ip) + 4 > 16
         THEN [ok |-> FALSE]
         ELSE EmbeddedIPv4(parseIPv4Fields(s), ip, ellipsis)
    ELSE IF Len(s) = off THEN LoopEnd(<<>>, ip2, ellipsis)
    ELSE IF s[off + 1] # ":" \/ Len(s) = off + 1 THEN [ok |-> FALSE]
    ELSE IF s[off + 2] = ":"
    THEN IF ellipsis >= 0 THEN [ok |-> FALSE]
         ELSE IF Len(s) = off + 2 THEN LoopEnd(<<>>, ip2, Len(ip2))
         ELSE parseIPv6Loop(Drop(s, off + 2), ip2, Len(ip2))
    ELSE parseIPv6Loop(Drop(s, off + 1), ip2, ellipsis)

GroupBytes(acc) == <<acc \div 256, acc % 256>>

parseIPv6Loop(s, ip, ellipsis) ==
    IF Len(ip) >= 16 THEN LoopEnd(s, ip, ellipsis)
    ELSE parseIPv6Group(s, HexRun(s), ip,
                        ip \o GroupBytes(HexAtoi(Take(s, HexRun(s)))), ellipsis)

Zeros(n) == [i \in 1..n |-> 0]

\* the end of netip parseIPv6: the whole text must be used, and "::" stands
\* for the groups that are missing
ExpandEllipsis(r) ==
    IF ~r.ok \/ Len(r.s) # 0 THEN [ok |-> FALSE]
    ELSE IF Len(r.ip) < 16
    THEN IF r.ellipsis < 0 THEN [ok |-> FALSE]
         ELSE [ok |-> TRUE,
               b |-> Take(r.ip, r.ellipsis) \o Zeros(16 - Len(r.ip))
                     \o Drop(r.ip, r.ellipsis)]
    ELSE IF r.ellipsis >= 0 THEN [ok |-> FALSE]
    ELSE [ok |-> TRUE, b |-> r.ip]

\* netip parseIPv6, for a text without a zone
parseIPv6(s) ==
    IF Len(s) >= 2 /\ s[1] = ":" /\ s[2] = ":"
    THEN IF Len(s) = 2 THEN [ok |-> TRUE, b |-> Zeros(16)]
         ELSE ExpandEllipsis(parseIPv6Loop(Drop(s, 2), <<>>, 0))
    ELSE ExpandEllipsis(parseIPv6Loop(s, <<>>, -1))

AddrFrom(r, is4) ==
    IF r.ok THEN [ok |-> TRUE, addr |-> [is4 |-> is4, b |-> r.b]] ELSE [ok |-> FALSE]

\* netip.ParseAddr: the first of '.', ':' and '%' in s picks the parser; a
\* text with a '%' is no address or an address with a zone, and
\* netip.ParsePrefix accepts neither
ParseAddr(s) ==
    LET special == {i \in 1..Len(s) : s[i] \in {".", ":", "%"}}
        k == CHOOSE i \in special : \A j \in special : i <= j
    IN IF special = {} \/ Index(s, "%") # 0 THEN [ok |-> FALSE]
       ELSE IF s[k] = "." THEN AddrFrom(parseIPv4Fields(s), TRUE)
       ELSE AddrFrom(parseIPv6(s), FALSE)

BitsOk(bitsStr) ==
    /\ Len(bitsStr) \in 1..3
    /\ \A j \in 1..Len(bitsStr) : IsDigit(bitsStr[j])
    /\ (Len(bitsStr) > 1 => bitsStr[1] # "0")

\* the end of netip.ParsePrefix: a is the parsed address, bitsStr the text
\* after the '/'
PrefixFrom(a, bitsStr) ==
    IF ~a.ok THEN NoPrefix
    ELSE IF ~BitsOk(bitsStr) THEN NoPrefix
    ELSE IF Atoi(bitsStr) > (IF a.addr.is4 THEN 32 ELSE 128) THEN NoPrefix
    ELSE [ok |-> TRUE, addr |-> a.addr, bits |-> Atoi(bitsStr)]

SplitPrefix(s, i) ==
    IF i = 0 THEN NoPrefix ELSE PrefixFrom(ParseAddr(Take(s, i - 1)), Drop(s, i))

\* netip.ParsePrefix: the text before the last '/' is the address, kept as
\* given (host bits are not masked); the text after it is the length
ParsePrefix(s) == SplitPrefix(s, LastIndex(s, "/"))

\* netip.Addr.String for a 4-byte address
string4(b) == Join([i \in 1..4 |-> Itoa(b[i])], <<".">>)

v6u16(b, i) == b[2 * i - 1] * 256 + b[2 * i]

\* length of the run of zero hextets that starts at hextet i
RECURSIVE ZeroRun(_, _)
ZeroRun(b, i) == IF i <= 8 /\ v6u16(b, i) = 0 THEN 1 + ZeroRun(b, i + 1) ELSE 0

\* hextets lo..hi of b, colon-separated
Hextets(b, lo, hi) ==
    Join([k \in 1..(hi - lo + 1) |-> AppendHex(v6u16(b, lo + k - 1))], <<":">>)

\* netip.Addr.string6: the first longest run of two or more zero hextets,
\* hextets zs..ze-1, is written "::"
Compress(b, zs, ze) == Hextets(b, 1, zs - 1) \o <<":", ":">> \o Hextets(b, ze, 8)

FirstLongestRun(b, cand) ==
    CHOOSE i \in cand : \A j \in cand : \/ ZeroRun(b, j) < ZeroRun(b, i)
                                        \/ (ZeroRun(b, j) = ZeroRun(b, i) /\ i <= j)

CompressAt(b, zs) == Compress(b, zs, zs + ZeroRun(b, zs))

string6(b) ==
    IF \A i \in 1..8 : ZeroRun(b, i) < 2 THEN Hextets(b, 1, 8)
    ELSE CompressAt(b, FirstLongestRun(b, {i \in 1..8 : ZeroRun(b, i) >= 2}))

Is4In6(a) == ~a.is4 /\ Take(a.b, 10) = Zeros(10) /\ a.b[11] = 255 /\ a.b[12] = 255

\* netip.Addr.String
AddrString(a) ==
    IF a.is4 THEN string4(a.b)
    ELSE IF Is4In6(a) THEN <<":", ":", "f", "f", "f", "f", ":">> \o string4(Drop(a.b, 12))
    ELSE string6(a.b)

\* netip.Prefix.String
PrefixString(p) == AddrString(p.addr) \o <<"/">> \o Itoa(p.bits)

\* the bits of one byte, most significant first
ByteBits(v) == [k \in 1..8 |-> (v \div (2 ^ (8 - k))) % 2]

\* byte v with bit bitInByte (0 = least significant) set: v | 1<<bitInByte
SetBit(v, bitInByte) ==
    IF (v \div (2 ^ bitInByte)) % 2 = 1 THEN v ELSE v + 2 ^ bitInByte

\* the loop of netipx.PrefixLastIP, `for b := bits; b < width; b++ { a[b/8] |=
\* 1 << (7 - b%8) }`, taken one byte at a time: OrBits runs it over the
\* positions b..hi-1, which all lie in the byte whose value is v
RECURSIVE OrBits(_, _, _)
OrBits(v, b, hi) ==
    IF b >= hi THEN v ELSE OrBits(SetBit(v, 7 - (b % 8)), b + 1, hi)

Max(a, b) == IF a >= b THEN a ELSE b

SetHostBits(bytes, bits, width) ==
    [j \in 1..Len(bytes) |-> OrBits(bytes[j], Max(bits, 8 * (j - 1)), 8 * j)]

\* netipx.PrefixLastIP
PrefixLastIP(p) ==
    [is4 |-> p.addr.is4,
     b |-> SetHostBits(p.addr.b, p.bits, IF p.addr.is4 THEN 32 ELSE 128)]

\* long division of a big-endian base-256 number by 10, from byte i on with
\* remainder r carried in
Cons(digit, rest) == [q |-> <<digit>> \o rest.q, r |-> rest.r]

RECURSIVE LongDiv(_, _, _)
LongDiv(bs, i, r) ==
    IF i > Len(bs) THEN [q |-> <<>>, r |-> r]
    ELSE Cons((r * 256 + bs[i]) \div 10, LongDiv(bs, i + 1, (r * 256 + bs[i]) % 10))

AllZero(bs) == \A i \in 1..Len(bs) : bs[i] = 0

RECURSIVE DecimalDigits(_)
DigitsOf(d) == DecimalDigits(d.q) \o <<HexDigits[d.r + 1]>>
DecimalDigits(bs) == IF AllZero(bs) THEN <<>> ELSE DigitsOf(LongDiv(bs, 1, 0))

\* big.Int.SetBytes(bytes).String(): base 10, no leading zeros, "0" for zero
BigIntString(bs) == IF AllZero(bs) THEN <<"0">> ELSE DecimalDigits(bs)

\* hex.EncodeToString: two lowercase digits for every byte
RECURSIVE EncodeToString(_)
EncodeToString(bs) ==
    IF Len(bs) = 0 THEN <<>>
    ELSE <<HexDigits[(bs[1] \div 16) + 1], HexDigits[(bs[1] % 16) + 1]>>
         \o EncodeToString(Tail(bs))

\* strings.TrimPrefix(s, "0"): s without one leading "0", if it has one
TrimPrefix0(s) == IF Len(s) > 0 /\ s[1] = "0" THEN Tail(s) ELSE s

toHex(ip) == TrimPrefix0(EncodeToString(ip.b))

-----------------------------------------------------------------------------
(* Header and line functions *)

T_network == <<"n","e","t","w","o","r","k">>
T_start_ip == <<"n","e","t","w","o","r","k","_","s","t","a","r","t","_","i","p">>
T_last_ip == <<"n","e","t","w","o","r","k","_","l","a","s","t","_","i","p">>
T_start_integer ==
    <<"n","e","t","w","o","r","k","_","s","t","a","r","t","_","i","n","t","e","g","e","r">>
T_last_integer ==
    <<"n","e","t","w","o","r","k","_","l","a","s","t","_","i","n","t","e","g","e","r">>
T_start_hex == <<"n","e","t","w","o","r","k","_","s","t","a","r","t","_","h","e","x">>
T_last_hex == <<"n","e","t","w","o","r","k","_","l","a","s","t","_","h","e","x">>

cidrHeader(orig) == <<T_network>> \o orig

\* cidrLine writing the address of the network without its length
cidrLine_addrOnly(network, orig) == <<AddrString(network.addr)>> \o orig

cidrLine(network, orig) == <<PrefixString(network)>> \o orig

rangeHeader(orig) == <<T_start_ip, T_last_ip>> \o orig

\* rangeLine writing the address of the network in both columns
rangeLine_firstTwice(network, orig) ==
    <<AddrString(network.addr), AddrString(network.addr)>> \o orig

rangeLine(network, orig) ==
    <<AddrString(network.addr), AddrString(PrefixLastIP(network))>> \o orig

intRangeHeader(orig) == <<T_start_integer, T_last_integer>> \o orig

intRangeLine(network, orig) ==
    <<BigIntString(network.addr.b), BigIntString(PrefixLastIP(network).b)>> \o orig

hexRangeHeader(orig) == <<T_start_hex, T_last_hex>> \o orig

\* hexRangeLine with its two columns put after the record instead of before
hexRangeLine_appended(network, orig) ==
    orig \o <<toHex(network.addr), toHex(PrefixLastIP(network))>>

hexRangeLine(network, orig) ==
    <<toHex(network.addr), toHex(PrefixLastIP(network))>> \o orig

\* addHeaderFunc(first, second) when the flag is set: second(first(header))
hexHeader(h) == IF hexRange THEN hexRangeHeader(h) ELSE h
intHeader(h) == IF intRange THEN intRangeHeader(h) ELSE h
ipHeader(h) == IF ipRange THEN rangeHeader(h) ELSE h
netHeader(h) == IF cidr THEN cidrHeader(h) ELSE h

\* the headerFunc Convert builds: hex, integer, range and cidr are wrapped in
\* that order, each around the function built so far
makeHeader(orig) == netHeader(ipHeader(intHeader(hexHeader(orig))))

\* addLineFunc(first, second) when the flag is set: second(network, first(network, line))
hexLine(network, l) == IF hexRange THEN hexRangeLine(network, l) ELSE l
intLine(network, l) == IF intRange THEN intRangeLine(network, l) ELSE l
ipLine(network, l) == IF ipRange THEN rangeLine(network, l) ELSE l
netLine(network, l) == IF cidr THEN cidrLine(network, l) ELSE l

\* makeLine with the range group wrapped last, outside the cidr group
makeLine_rangeOutermost(network, orig) ==
    ipLine(network, netLine(network, intLine(network, hexLine(network, orig))))

\* the lineFunc Convert builds
makeLine(network, orig) ==
    netLine(network, ipLine(network, intLine(network, hexLine(network, orig))))

-----------------------------------------------------------------------------
(* Inputs *)

MaxCols == 3    \* most columns of an input record, the network column included
MaxRows == 2    \* most data records the first run reads

N_v4host == <<"1","0",".","1",".","2",".","3","/","8">>
N_v6 == <<"2","0","0","1",":","0","d","b","8",":",":","/","3","2">>
N_text == <<"n","o","t","-","a","-","n","e","t","w","o","r","k">>
N_v4long == <<"1",".","0",".","0",".","0","/","3","3">>

\* two networks netip.ParsePrefix accepts (an IPv4 one with host bits set, an
\* IPv6 one not in canonical spelling) and two it rejects
NetTexts == {N_v4host, N_v6, N_text, N_v4long}

\* name of the i-th column after the network column
ColName(i) == <<"c">> \o Itoa(i)

HeaderRec(n) == <<T_network>> \o [i \in 1..(n - 1) |-> ColName(i)]

\* the fields after the network column: two fillings that differ in every
\* position and between neighbouring positions; one field is empty
Filling(v, n) ==
    [i \in 1..(n - 1) |-> IF (i + v) % 2 = 0 THEN <<>> ELSE <<HexDigits[7 + v]>>]

DataRec(net, v, n) == <<net>> \o Filling(v, n)

HeaderRecs == {HeaderRec(n) : n \in 1..MaxCols}
DataRecs == {DataRec(net, v, n) : net \in NetTexts, v \in 1..2, n \in 1..MaxCols}

-----------------------------------------------------------------------------
(* Errors *)

\* an error: the operation that failed (the text fmt.Errorf puts first), the
\* network text or the file name it names, and the wrapped cause
Error(kind, text, cause) == [kind |-> kind, text |-> text, file |-> "", cause |-> cause]
FileError(kind, file) == [kind |-> kind, text |-> <<>>, file |-> file, cause |-> "os"]
NoErr == Error("none", <<>>, "")

-----------------------------------------------------------------------------
(* csv.Reader and csv.Writer *)

\* A record of no field, or of one empty field, is written as an empty
\* line, and csv.Reader skips empty lines.
BlankLine(rec) == Len(rec) = 0 \/ (Len(rec) = 1 /\ rec[1] = <<>>)

\* the records csv.Reader returns for the rows csv.Writer wrote
CsvRecords(rows) == SelectSeq(rows, LAMBDA r : ~BlankLine(r))

Rec(r) == [kind |-> "rec", rec |-> r]
EOF == [kind |-> "EOF", rec |-> <<>>]
ReadError == [kind |-> "error", rec |-> <<>>]

\* What reader.Read() can return after k records.  The first run reads an
\* arbitrary input; the second run reads what the first run wrote.
ReadResults(k) ==
    IF run = 1
    THEN {EOF, ReadError}
         \cup (IF k = 0 THEN {Rec(r) : r \in HeaderRecs}
               ELSE IF k <= MaxRows THEN {Rec(r) : r \in DataRecs}
               ELSE {})
    ELSE IF k < Len(source) THEN {Rec(source[k + 1])} ELSE {EOF}

\* WriterWrite losing the row it was handed when the buffer is written out
WriterWrite_rowLost(row, next, failure) ==
    \/ /\ buf' = Append(buf, row)
       /\ UNCHANGED out
       /\ pc' = next
       /\ UNCHANGED err
    \/ /\ out' = out \o buf
       /\ buf' = <<>>
       /\ pc' = next
       /\ UNCHANGED err
    \/ \E k \in 0..Len(buf) :
          /\ out' = out \o Take(buf, k)
          /\ buf' = Drop(buf, k)
          /\ pc' = "failed"
          /\ err' = Error(failure, <<>>, "write")

\* writer.Write(row): the row goes to the bufio buffer; when the buffer is
\* full its content is written to the output first, and that write can fail
WriterWrite(row, next, failure) ==
    \/ /\ buf' = Append(buf, row)
       /\ UNCHANGED out
       /\ pc' = next
       /\ UNCHANGED err
    \/ /\ out' = out \o buf
       /\ buf' = <<row>>
       /\ pc' = next
       /\ UNCHANGED err
    \/ \E k \in 0..Len(buf) :
          /\ out' = out \o Take(buf, k)
          /\ buf' = Drop(buf, k)
          /\ pc' = "failed"
          /\ err' = Error(failure, <<>>, "write")

Converting == fpc \in {"none", "convert"}

-----------------------------------------------------------------------------
(* convert() *)

\* ReadHeader writing the header of an empty record before it looks at the
\* error of the read
ReadHeader_writesFirst ==
    /\ Converting /\ pc = "start"
    /\ \E res \in ReadResults(0) :
          IF res.kind = "rec"
          THEN /\ inRows' = <<res.rec>>
               /\ pc' = "writeHeader"
               /\ UNCHANGED <<err, buf>>
          ELSE /\ pc' = "failed"
               /\ buf' = Append(buf, makeHeader(<<>>))
               /\ err' = Error("reading CSV header", <<>>, res.kind)
               /\ UNCHANGED inRows
    /\ UNCHANGED <<out, run, source, first>>
    /\ UNCHANGED <<flagVars, fileVars, fnVars>>

ReadHeader ==
    /\ Converting /\ pc = "start"
    /\ \E res \in ReadResults(0) :
          IF res.kind = "rec"
          THEN /\ inRows' = <<res.rec>>
               /\ pc' = "writeHeader"
               /\ UNCHANGED err
          ELSE /\ pc' = "failed"
               /\ err' = Error("reading CSV header", <<>>, res.kind)
               /\ UNCHANGED inRows
    /\ UNCHANGED <<buf, out, run, source, first>>
    /\ UNCHANGED <<flagVars, fileVars, fnVars>>

\* WriteHeader handing the whole header to makeHeader instead of header[1:]
WriteHeader_wholeHeader ==
    /\ Converting /\ pc = "writeHeader"
    /\ WriterWrite(makeHeader(inRows[1]), "read", "writing CSV header")
    /\ UNCHANGED <<inRows, run, source, first>>
    /\ UNCHANGED <<flagVars, fileVars, fnVars>>

WriteHeader ==
    /\ Converting /\ pc = "writeHeader"
    /\ WriterWrite(makeHeader(Tail(inRows[1])), "read", "writing CSV header")
    /\ UNCHANGED <<inRows, run, source, first>>
    /\ UNCHANGED <<flagVars, fileVars, fnVars>>

\* ReadRecord on a reader that accepts records of any field count
ReadRecord_anyFieldCount ==
    /\ Converting /\ pc = "read"
    /\ \E res \in ReadResults(Len(inRows)) :
          IF res.kind = "EOF"
          THEN /\ pc' = "flush"
               /\ UNCHANGED <<inRows, err>>
          ELSE IF res.kind = "error"
          THEN /\ pc' = "failed"
               /\ err' = Error("reading CSV", <<>>, "error")
               /\ UNCHANGED inRows
          ELSE /\ inRows' = Append(inRows, res.rec)
               /\ pc' = "line"
               /\ UNCHANGED err
    /\ UNCHANGED <<buf, out, run, source, first>>
    /\ UNCHANGED <<flagVars, fileVars, fnVars>>

\* reader.Read() in the loop; a record whose field count differs from the
\* header's is csv.ErrFieldCount
ReadRecord ==
    /\ Converting /\ pc = "read"
    /\ \E res \in ReadResults(Len(inRows)) :
          IF res.kind = "EOF"
          THEN /\ pc' = "flush"
               /\ UNCHANGED <<inRows, err>>
          ELSE IF res.kind = "error"
          THEN /\ pc' = "failed"
               /\ err' = Error("reading CSV", <<>>, "error")
               /\ UNCHANGED inRows
          ELSE IF Len(res.rec) # Len(inRows[1])
          THEN /\ pc' = "failed"
               /\ err' = Error("reading CSV", <<>>, "ErrFieldCount")
               /\ UNCHANGED inRows
          ELSE /\ inRows' = Append(inRows, res.rec)
               /\ pc' = "line"
               /\ UNCHANGED err
    /\ UNCHANGED <<buf, out, run, source, first>>
    /\ UNCHANGED <<flagVars, fileVars, fnVars>>

\* ParsedLine going on to the next record when the network does not parse
ParsedLine_skipsBadRow(record, prefix) ==
    IF ~prefix.ok
    THEN /\ pc' = "read"
         /\ UNCHANGED <<err, buf, out>>
    ELSE WriterWrite(makeLine(prefix, Tail(record)), "read", "writing CSV")

\* the loop body after reader.Read(): prefix is netip.ParsePrefix(record[0])
ParsedLine(record, prefix) ==
    IF ~prefix.ok
    THEN /\ pc' = "failed"
         /\ err' = Error("parsing network", record[1], "parse")
         /\ UNCHANGED <<buf, out>>
    ELSE WriterWrite(makeLine(prefix, Tail(record)), "read", "writing CSV")

\* netip.ParsePrefix(record[0]), then writer.Write(makeLine(prefix, record[1:]))
ConvertLine ==
    /\ Converting /\ pc = "line"
    /\ ParsedLine(inRows[Len(inRows)], ParsePrefix(inRows[Len(inRows)][1]))
    /\ UNCHANGED <<inRows, run, source, first>>
    /\ UNCHANGED <<flagVars, fileVars, fnVars>>

\* writer.Flush(), writer.Error()
Flush ==
    /\ Converting /\ pc = "flush"
    /\ \/ /\ out' = out \o buf
          /\ buf' = <<>>
          /\ pc' = "done"
          /\ UNCHANGED err
       \/ \E k \in 0..Len(buf) :
             /\ out' = out \o Take(buf, k)
             /\ buf' = Drop(buf, k)
             /\ pc' = "failed"
             /\ err' = Error("flushing CSV", <<>>, "write")
    /\ fileLog' = IF fpc = "convert" THEN Append(fileLog, "flush") ELSE fileLog
    /\ UNCHANGED <<inRows, run, source, first>>
    /\ UNCHANGED <<flagVars, fpc, inFile, outFile, ret, fnVars>>

\* Convert is called again, with the same flags, on what it wrote
Rerun ==
    /\ fpc = "none" /\ pc = "done" /\ run = 1
    /\ run' = 2
    /\ source' = CsvRecords(out)
    /\ first' = [inRows |-> inRows, out |-> out]
    /\ pc' = "start"
    /\ inRows' = <<>>
    /\ buf' = <<>>
    /\ out' = <<>>
    /\ UNCHANGED err
    /\ UNCHANGED <<flagVars, fileVars, fnVars>>

NoFile == [opened |-> FALSE, closeTried |-> FALSE, closeFailed |-> FALSE]

ConvInit ==
    /\ pc = "start" /\ run = 1
    /\ inRows = <<>> /\ buf = <<>> /\ out = <<>>
    /\ err = NoErr
    /\ source = <<>>
    /\ first = [inRows |-> <<>>, out |-> <<>>]

FlagInit ==
    /\ cidr \in BOOLEAN /\ ipRange \in BOOLEAN
    /\ intRange \in BOOLEAN /\ hexRange \in BOOLEAN

FnIdle == fnText = <<>> /\ fnOut = [done |-> FALSE]

\* Convert(input, output, cidr, ipRange, intRange, hexRange) on two streams
Init ==
    /\ FlagInit /\ ConvInit /\ FnIdle
    /\ fpc = "none" /\ inFile = NoFile /\ outFile = NoFile
    /\ fileLog = <<>> /\ ret = NoErr

Next == ReadHeader \/ WriteHeader \/ ReadRecord \/ ConvertLine \/ Flush \/ Rerun

Spec == Init /\ [][Next]_vars

-----------------------------------------------------------------------------
(* ConvertFile *)

Opened == [opened |-> TRUE, closeTried |-> FALSE, closeFailed |-> FALSE]

\* f.Close() on file record f; failed says whether Close returned an error
Close(f, failed) == [f EXCEPT !.closeTried = TRUE, !.closeFailed = failed]

\* the log entry of a call
Call(name, failed) == IF failed THEN name \o "!" ELSE name

\* os.Create(outputFile)
CreateOutput ==
    /\ fpc = "create"
    /\ \/ /\ outFile' = Opened
          /\ fileLog' = Append(fileLog, "create")
          /\ fpc' = "open"
          /\ UNCHANGED ret
       \/ /\ ret' = FileError("creating output file", "outputFile")
          /\ fileLog' = Append(fileLog, "create!")
          /\ fpc' = "returned"
          /\ UNCHANGED outFile
    /\ UNCHANGED inFile
    /\ UNCHANGED <<flagVars, convVars, fnVars>>

\* os.Open(inputFile); on failure the output file is closed and the result
\* of that Close is dropped
OpenInput ==
    /\ fpc = "open"
    /\ \/ /\ inFile' = Opened
          /\ fileLog' = Append(fileLog, "open")
          /\ fpc' = "convert"
          /\ UNCHANGED <<outFile, ret>>
       \/ \E oe \in BOOLEAN :
             /\ outFile' = Close(outFile, oe)
             /\ fileLog' = fileLog \o <<"open!", Call("closeOut", oe)>>
             /\ ret' = FileError("opening input file", "inputFile")
             /\ fpc' = "returned"
             /\ UNCHANGED inFile
    /\ UNCHANGED <<flagVars, convVars, fnVars>>

\* ConvertFailed returning the error of inFile.Close() when that fails
ConvertFailed_closeErrorWins ==
    /\ fpc = "convert" /\ pc = "failed"
    /\ \E ie \in BOOLEAN, oe \in BOOLEAN :
          /\ inFile' = Close(inFile, ie)
          /\ outFile' = Close(outFile, oe)
          /\ fileLog' = fileLog \o <<"convert!", Call("closeIn", ie), Call("closeOut", oe)>>
          /\ ret' = IF ie THEN FileError("closing file", "inputFile") ELSE err
    /\ fpc' = "returned"
    /\ UNCHANGED <<flagVars, convVars, fnVars>>

\* Convert returned an error: both files are closed, the results of the
\* two Close calls are dropped, and Convert's error is returned
ConvertFailed ==
    /\ fpc = "convert" /\ pc = "failed"
    /\ \E ie \in BOOLEAN, oe \in BOOLEAN :
          /\ inFile' = Close(inFile, ie)
          /\ outFile' = Close(outFile, oe)
          /\ fileLog' = fileLog \o <<"convert!", Call("closeIn", ie), Call("closeOut", oe)>>
    /\ ret' = err
    /\ fpc' = "returned"
    /\ UNCHANGED <<flagVars, convVars, fnVars>>

\* SyncOutput without the call of outFile.Sync()
SyncOutput_skipped ==
    /\ fpc = "convert" /\ pc = "done"
    /\ fileLog' = Append(fileLog, "convert")
    /\ fpc' = "closeIn"
    /\ UNCHANGED <<inFile, outFile, ret>>
    /\ UNCHANGED <<flagVars, convVars, fnVars>>

\* outFile.Sync() after Convert returned nil
SyncOutput ==
    /\ fpc = "convert" /\ pc = "done"
    /\ \/ /\ fileLog' = fileLog \o <<"convert", "sync">>
          /\ fpc' = "closeIn"
          /\ UNCHANGED <<inFile, outFile, ret>>
       \/ \E ie \in BOOLEAN, oe \in BOOLEAN :
             /\ inFile' = Close(inFile, ie)
             /\ outFile' = Close(outFile, oe)
             /\ fileLog' = fileLog \o <<"convert", "sync!", Call("closeIn", ie),
                                        Call("closeOut", oe)>>
             /\ ret' = FileError("syncing file", "outputFile")
             /\ fpc' = "returned"
    /\ UNCHANGED <<flagVars, convVars, fnVars>>

\* inFile.Close(); its error is returned at once
CloseInput ==
    /\ fpc = "closeIn"
    /\ \E ie \in BOOLEAN :
          /\ inFile' = Close(inFile, ie)
          /\ fileLog' = Append(fileLog, Call("closeIn", ie))
          /\ IF ie
             THEN /\ ret' = FileError("closing file", "inputFile")
                  /\ fpc' = "returned"
             ELSE /\ fpc' = "closeOut"
                  /\ UNCHANGED ret
    /\ UNCHANGED outFile
    /\ UNCHANGED <<flagVars, convVars, fnVars>>

\* outFile.Close(), then return
CloseOutput ==
    /\ fpc = "closeOut"
    /\ \E oe \in BOOLEAN :
          /\ outFile' = Close(outFile, oe)
          /\ fileLog' = Append(fileLog, Call("closeOut", oe))
          /\ ret' = IF oe THEN FileError("closing file", "outputFile") ELSE NoErr
    /\ fpc' = "returned"
    /\ UNCHANGED inFile
    /\ UNCHANGED <<flagVars, convVars, fnVars>>

\* ConvertFile(inputFile, outputFile, cidr, ipRange, intRange, hexRange)
InitFile ==
    /\ FlagInit /\ ConvInit /\ FnIdle
    /\ fpc = "create" /\ inFile = NoFile /\ outFile = NoFile
    /\ fileLog = <<>> /\ ret = NoErr

NextFile ==
    \/ CreateOutput \/ OpenInput
    \/ ReadHeader \/ WriteHeader \/ ReadRecord \/ ConvertLine \/ Flush
    \/ ConvertFailed \/ SyncOutput \/ CloseInput \/ CloseOutput

SpecFile == InitFile /\ [][NextFile]_vars

-----------------------------------------------------------------------------
(* The line functions on one network *)

FnBytes == {0, 1, 128, 255}

FnAddrs4 == {Addr4(<<a, b, c, d>>) : a \in FnBytes, b \in FnBytes, c \in FnBytes, d \in FnBytes}

FnAddrs6 ==
    {Addr6(Zeros(16)),
     Addr6([i \in 1..16 |-> IF i = 16 THEN 1 ELSE 0]),
     Addr6([i \in 1..16 |-> 255]),
     Addr6(<<32, 1, 13, 184, 133, 163, 0, 66, 0, 0, 0, 0, 0, 0, 0, 0>>),
     Addr6(<<0, 0, 0, 0, 0, 0, 0, 0, 0, 0, 255, 255, 1, 2, 3, 4>>),
     Addr6(<<0, 0, 0, 0, 0, 1, 0, 0, 0, 0, 0, 0, 0, 1, 0, 0>>)}

FnPrefixes ==
    {[ok |-> TRUE, addr |-> a, bits |-> n] : a \in FnAddrs4, n \in 0..32}
    \cup {[ok |-> TRUE, addr |-> a, bits |-> n] : a \in FnAddrs6, n \in 0..128}

\* each of the four line functions on a parsed network and an empty record
Lines(network) ==
    IF network.ok
    THEN [done |-> TRUE, ok |-> TRUE, network |-> network,
          last |-> PrefixLastIP(network),
          cidr |-> cidrLine(network, <<>>),
          range |-> rangeLine(network, <<>>),
          int |-> intRangeLine(network, <<>>),
          hex |-> hexRangeLine(network, <<>>)]
    ELSE [done |-> TRUE, ok |-> FALSE]

\* netip.ParsePrefix on the text, then the line functions
ApplyLines ==
    /\ ~fnOut.done
    /\ fnOut' = Lines(ParsePrefix(fnText))
    /\ UNCHANGED fnText
    /\ UNCHANGED <<flagVars, convVars, fileVars>>

InitFn ==
    /\ fnText \in {PrefixString(p) : p \in FnPrefixes}
    /\ fnOut = [done |-> FALSE]
    /\ cidr = FALSE /\ ipRange = FALSE /\ intRange = FALSE /\ hexRange = FALSE
    /\ ConvInit
    /\ fpc = "none" /\ inFile = NoFile /\ outFile = NoFile
    /\ fileLog = <<>> /\ ret = NoErr

NextFn == ApplyLines

SpecFn == InitFn /\ [][NextFn]_vars

-----------------------------------------------------------------------------
(* Properties of Convert *)

\* the rows handed to writer.Write so far, in order
Emitted == out \o buf

\* number of columns the flags add
AddedCols ==
    (IF cidr THEN 1 ELSE 0) + (IF ipRange THEN 2 ELSE 0)
    + (IF intRange THEN 2 ELSE 0) + (IF hexRange THEN 2 ELSE 0)

Group(flag, cols) == IF flag THEN cols ELSE <<>>

LayoutHeader(header) ==
    Group(cidr, <<T_network>>)
    \o Group(ipRange, <<T_start_ip, T_last_ip>>)
    \o Group(intRange, <<T_start_integer, T_last_integer>>)
    \o Group(hexRange, <<T_start_hex, T_last_hex>>)
    \o Tail(header)

\* The values derived from a network: its CIDR text, the text of its first
\* and last address, their decimal and their hex form.
DerivedOf(p, lastIP) ==
    [ok |-> TRUE,
     cidr |-> <<PrefixString(p)>>,
     ip |-> <<AddrString(p.addr), AddrString(lastIP)>>,
     int |-> <<BigIntString(p.addr.b), BigIntString(lastIP.b)>>,
     hex |-> <<toHex(p.addr), toHex(lastIP)>>]

DerivedFrom(p) == IF p.ok THEN DerivedOf(p, PrefixLastIP(p)) ELSE [ok |-> FALSE]

\* The derived values of the input networks and of their canonical
\* spelling, computed once.
TableTexts == <<N_v4host, N_v6, N_text, N_v4long, PrefixString(ParsePrefix(N_v6))>>

DerivedTable ==
    <<DerivedFrom(ParsePrefix(TableTexts[1])), DerivedFrom(ParsePrefix(TableTexts[2])),
      DerivedFrom(ParsePrefix(TableTexts[3])), DerivedFrom(ParsePrefix(TableTexts[4])),
      DerivedFrom(ParsePrefix(TableTexts[5]))>>

Derived(text) ==
    IF \E i \in 1..Len(TableTexts) : TableTexts[i] = text
    THEN DerivedTable[CHOOSE i \in 1..Len(TableTexts) : TableTexts[i] = text]
    ELSE DerivedFrom(ParsePrefix(text))

LayoutLine(d, record) ==
    Group(cidr, d.cidr) \o Group(ipRange, d.ip) \o Group(intRange, d.int)
    \o Group(hexRange, d.hex) \o Tail(record)

\* the row the layout of C1 prescribes for the i-th input record
LayoutRow(i) ==
    IF i = 1 THEN LayoutHeader(inRows[1])
    ELSE LayoutLine(Derived(inRows[i][1]), inRows[i])

\* C1: under every combination of the four flags the emitted header is the
\* cidr, range, integer and hex column names (each group iff its flag is
\* set, in that order) followed by the input header's columns 1..end, and
\* every emitted data row carries its values in the same group order.
C1_Layout == \A i \in 1..Len(Emitted) : Emitted[i] = LayoutRow(i)

C1_Witness ==
    /\ run = 1 /\ pc = "done" /\ Len(out) = 3 /\ Len(inRows[1]) = 3
    /\ cidr /\ ipRange /\ intRange /\ hexRange

\* C2: the fields 1..end of every input row are the trailing fields of the
\* output row, same values, count and order, and the row has exactly the
\* added columns before them.
C2_Trailing ==
    \A i \in 1..Len(Emitted) :
        /\ Len(Emitted[i]) = AddedCols + Len(inRows[i]) - 1
        /\ Last(Emitted[i], Len(inRows[i]) - 1) = Tail(inRows[i])

C2_Witness ==
    /\ run = 1 /\ pc = "done" /\ Len(out) = 3 /\ Len(inRows[1]) = 3
    /\ hexRange /\ ipRange /\ ~cidr
    /\ out[2][5] # out[2][6]

\* C3: when column 0 of a data row is no valid prefix, Convert fails with a
\* parse error naming that text, no row is emitted for the record, and the
\* header and the rows of all earlier records are in the output stream
\* when Convert returns.
C3_EarlierRowsInOutput ==
    (pc = "failed" /\ err.kind = "parsing network") =>
        /\ err.text = inRows[Len(inRows)][1]
        /\ ~ParsePrefix(err.text).ok
        /\ Len(out) = Len(inRows) - 1
        /\ \A i \in 1..(Len(inRows) - 1) : out[i] = LayoutRow(i)

\* C6: with all four flags false every output row is the input row without
\* its column 0; column 0 of a data row is still parsed, so a record with
\* an invalid prefix fails the conversion and nothing but an invalid prefix
\* or an I/O error does.
NoFlags == ~cidr /\ ~ipRange /\ ~intRange /\ ~hexRange

C6_NoFlags ==
    (NoFlags /\ run = 1) =>
        /\ \A i \in 1..Len(Emitted) : Emitted[i] = Tail(inRows[i])
        /\ pc = "done" => out = [i \in 1..Len(inRows) |-> Tail(inRows[i])]
        /\ \A i \in 2..Len(inRows) :
              ~Derived(inRows[i][1]).ok =>
                  /\ i = Len(inRows)
                  /\ Len(Emitted) < i
                  /\ pc \in {"line", "failed"}
                  /\ pc = "failed" => err.kind = "parsing network"
        /\ pc = "failed" =>
              \/ err.cause \in {"EOF", "error", "ErrFieldCount", "write"}
              \/ err.kind = "parsing network" /\ ~Derived(err.text).ok

C6_Witness ==
    /\ NoFlags /\ run = 1 /\ pc = "done"
    /\ Len(out) = 3 /\ Len(inRows[1]) = 3 /\ out[3] = Tail(inRows[3])

\* C7: when no header can be read, Convert fails with the header-reading
\* error and has written nothing, neither to the writer nor to the output.
C7_NoHeader ==
    /\ (pc # "start" /\ inRows = <<>>) =>
          (pc = "failed" /\ err.kind = "reading CSV header")
    /\ (pc = "failed" /\ err.kind = "reading CSV header") =>
          (inRows = <<>> /\ buf = <<>> /\ out = <<>>)

C7_Witness ==
    /\ run = 1 /\ pc = "failed" /\ err.kind = "reading CSV header"
    /\ err.cause = "EOF" /\ out = <<>>

\* C10: with the cidr flag set, Convert run on its own output with the same
\* flags reads every row (no header, field-count or parse error), and in
\* every row it emits the added columns equal those of the first run's row.
C10_Idempotent ==
    (cidr /\ run = 2) =>
        /\ pc = "failed" => err.cause = "write"
        /\ Len(inRows) <= Len(first.out)
        /\ pc = "done" => Len(out) = Len(first.out)
        /\ \A i \in 1..Len(Emitted) :
              Take(Emitted[i], AddedCols) = Take(first.out[i], AddedCols)

C10_Witness ==
    /\ cidr /\ hexRange /\ intRange /\ run = 2 /\ pc = "done"
    /\ Len(out) = 3
    /\ \E i \in 2..3 : first.inRows[i][1] = N_v6
    /\ \E i \in 2..3 : first.inRows[i][1] = N_v4host

-----------------------------------------------------------------------------
(* Properties of the line functions *)

\* base-16 digits of the big-endian number bs with no leading zero digit;
\* "0" for zero
RECURSIVE StripZeros(_)
StripZeros(digits) ==
    IF Len(digits) > 1 /\ digits[1] = "0" THEN StripZeros(Tail(digits)) ELSE digits

CanonicalHex(bs) == StripZeros(EncodeToString(bs))

\* C4: the hex columns hold the first and the last address as one unsigned
\* big-endian integer in lowercase base 16 without any leading zero digit,
\* "0" for zero.
C4_HexNoLeadingZero ==
    (fnOut.done /\ fnOut.ok) =>
        fnOut.hex = <<CanonicalHex(fnOut.network.addr.b), CanonicalHex(fnOut.last.b)>>

\* the bits of an address, most significant first
AddrBits(bs) == [k \in 1..(8 * Len(bs)) |-> ByteBits(bs[((k - 1) \div 8) + 1])[((k - 1) % 8) + 1]]

\* a <= b as unsigned big-endian integers of the same width
Leq(a, b) ==
    \/ a = b
    \/ \E i \in 1..Len(a) : a[i] < b[i] /\ \A j \in 1..(i - 1) : a[j] = b[j]

LastOfBits(n, firstB, lastB) ==
    /\ Len(firstB) = 4 /\ Len(lastB) = 4
    /\ \A k \in 1..32 :
          AddrBits(lastB)[k] = IF k > n THEN 1 ELSE AddrBits(firstB)[k]
    /\ Leq(firstB, lastB)
    /\ n = 0 => lastB = <<255, 255, 255, 255>>
    /\ n = 32 => lastB = firstB

\* C5: for a 4-byte prefix of length n, host bits set or not, the last
\* address in the range and integer columns has its lowest 32-n bits 1 and
\* its highest n bits those of the first address; first <= last; n = 0 gives
\* the all-ones address and n = 32 gives the first address.
C5_LastAddress ==
    (fnOut.done /\ fnOut.ok /\ fnOut.network.addr.is4) =>
        /\ ParseAddr(fnOut.range[1]).addr = fnOut.network.addr
        /\ LastOfBits(fnOut.network.bits, fnOut.network.addr.b,
                      ParseAddr(fnOut.range[2]).addr.b)
        /\ fnOut.int[1] = BigIntString(ParseAddr(fnOut.range[1]).addr.b)
        /\ fnOut.int[2] = BigIntString(ParseAddr(fnOut.range[2]).addr.b)

\* a /8 whose address has host bits set
C5_Witness ==
    /\ fnOut.done /\ fnOut.ok /\ fnOut.network.addr.is4
    /\ fnOut.network.bits = 8 /\ fnOut.network.addr.b = <<1, 128, 0, 1>>
    /\ fnOut.range[2] = <<"1", ".", "2", "5", "5", ".", "2", "5", "5", ".", "2", "5", "5">>

-----------------------------------------------------------------------------
(* Properties of ConvertFile *)

\* C8: when ConvertFile returns, Close was called on every file it opened.
C8_AllClosed ==
    fpc = "returned" =>
        /\ inFile.opened => inFile.closeTried
        /\ outFile.opened => outFile.closeTried

Failures == {"create!", "open!", "convert!", "sync!", "closeIn!", "closeOut!"}

\* the error ConvertFile returns for a failed call
ErrorOf(call) ==
    IF call = "create!" THEN FileError("creating output file", "outputFile")
    ELSE IF call = "open!" THEN FileError("opening input file", "inputFile")
    ELSE IF call = "convert!" THEN err
    ELSE IF call = "sync!" THEN FileError("syncing file", "outputFile")
    ELSE IF call = "closeIn!" THEN FileError("closing file", "inputFile")
    ELSE FileError("closing file", "outputFile")

FirstFailure(failed) == CHOOSE i \in failed : \A j \in failed : i <= j

\* C9: ConvertFile returns the first failure; a Close that fails after an
\* earlier failure does not replace it, and a Close failure that is the
\* only failure is returned with the name of the file.
C9_FirstFailure ==
    fpc = "returned" =>
        LET failed == {i \in 1..Len(fileLog) : fileLog[i] \in Failures}
        IN IF failed = {} THEN ret = NoErr
           ELSE ret = ErrorOf(fileLog[FirstFailure(failed)])

C9_Witness ==
    /\ fpc = "returned" /\ pc = "failed" /\ err.kind = "parsing network"
    /\ inFile.closeFailed /\ outFile.closeFailed
    /\ ret = err

-----------------------------------------------------------------------------
(* The network column, the order of the calls, the rows *)

\* C11: with the cidr flag set, the network column of every emitted data
\* row is the text of column 0 of the input row it was made from.
C11_NetworkAsInInput ==
    (cidr /\ run = 1) =>
        \A i \in 2..Len(Emitted) : Emitted[i][1] = inRows[i][1]

Occurs(call) == Cardinality({i \in 1..Len(fileLog) : fileLog[i] = call})

Position(call) == CHOOSE i \in 1..Len(fileLog) : fileLog[i] = call

\* C12: when ConvertFile returns nil, every row read is in the output and
\* the writer's buffer is empty, and the writer was flushed before the one
\* outFile.Sync(), which came before the one outFile.Close().
C12_FlushSyncClose ==
    (fpc = "returned" /\ ret = NoErr) =>
        /\ pc = "done" /\ buf = <<>> /\ Len(out) = Len(inRows)
        /\ Occurs("flush") = 1 /\ Occurs("sync") = 1 /\ Occurs("closeOut") = 1
        /\ Position("flush") < Position("sync")
        /\ Position("sync") < Position("closeOut")
        /\ outFile.closeTried

C12_Witness ==
    /\ fpc = "returned" /\ ret = NoErr
    /\ Len(out) = 3 /\ cidr /\ hexRange

\* the steps of convert(): Start -> HeaderRead -> RowRead* -> Done, and
\* Failed from every one of them
Transitions ==
    {<<"start", "writeHeader">>, <<"writeHeader", "read">>, <<"read", "line">>,
     <<"line", "read">>, <<"read", "flush">>, <<"flush", "done">>,
     <<"start", "failed">>, <<"writeHeader", "failed">>, <<"read", "failed">>,
     <<"line", "failed">>, <<"flush", "failed">>}

Parses(text) == Derived(text).ok

C13_States ==
    /\ pc = "start" => (inRows = <<>> /\ Emitted = <<>>)
    /\ Len(inRows) >= 2 => (Len(Emitted) >= 1 /\ Emitted[1] = LayoutHeader(inRows[1]))
    /\ \A i \in 2..Len(inRows) :
          ~Parses(inRows[i][1]) => (i = Len(inRows) /\ pc \in {"line", "failed"})
    /\ (pc = "failed") <=> (err # NoErr)
    /\ pc = "done" =>
          /\ inRows # <<>> /\ buf = <<>> /\ Len(out) = Len(inRows)
          /\ \A i \in 2..Len(inRows) : Parses(inRows[i][1])

C13_Step ==
    /\ UNCHANGED convVars \/ <<pc, pc'>> \in Transitions
    /\ pc \in {"failed", "done"} => UNCHANGED convVars
    /\ inRows' # inRows => pc \in {"start", "read"}
    /\ Emitted' # Emitted => pc \in {"writeHeader", "line"}

\* C13: convert() reads and writes the header before it reads a data row,
\* moves to Failed on every failure and then reads and writes nothing more,
\* never goes on after a row whose network does not parse, and is Done only
\* when every data row was parsed and written and the flush reported no error.
C13_StateMachine == []C13_States /\ [][C13_Step]_vars

C13_Witness ==
    /\ fpc = "returned" /\ pc = "failed" /\ err.kind = "parsing network"
    /\ Len(inRows) = 3 /\ Len(Emitted) = 2

\* C14: every emitted row has the width of the emitted header, the input
\* columns less one plus the columns the flags add; a record whose field
\* count differs from the header's fails the conversion and emits no row.
C14_EqualWidth ==
    /\ \A i \in 1..Len(Emitted) :
          /\ Len(Emitted[i]) = Len(Emitted[1])
          /\ Len(Emitted[i]) = Len(inRows[1]) - 1 + AddedCols
    /\ \A i \in 1..Len(inRows) : Len(inRows[i]) = Len(inRows[1])
    /\ err.cause = "ErrFieldCount" =>
          (pc = "failed" /\ Len(Emitted) <= Len(inRows))

C14_Witness ==
    /\ run = 1 /\ pc = "failed" /\ err.cause = "ErrFieldCount"
    /\ Len(Emitted) = 2 /\ cidr /\ ipRange /\ Len(inRows[1]) = 3

\* C15: the i-th emitted row is made from the i-th record read, one row for
\* each record; after a successful run the output holds a row for every
\* record, and after a failure at a data row no row for that record or a
\* later one was written.
C15_RowForRow ==
    /\ Len(Emitted) <= Len(inRows)
    /\ \A i \in 1..Len(Emitted) : Emitted[i] = LayoutRow(i)
    /\ pc \in {"read", "flush"} => Len(Emitted) = Len(inRows)
    /\ pc = "done" => (buf = <<>> /\ Len(out) = Len(inRows))
    /\ (pc = "failed" /\ err.kind \in {"parsing network", "writing CSV"}) =>
          Len(Emitted) = Len(inRows) - 1
    /\ (pc = "failed" /\ err.kind = "reading CSV") => Len(Emitted) = Len(inRows)

C15_Witness ==
    /\ run = 1 /\ pc = "done" /\ Len(out) = 3
    /\ inRows[2][1] = N_v6 /\ inRows[3][1] = N_v4host
    /\ out[2] # out[3]

====
